---- MODULE Spec2Model ----
(***************************************************************************)
(* A model of use-nemo: the directive registry (registry.ts), the scope    *)
(* resolver of helpers.ts (getDirectiveScope, getAllDirectiveScopes,       *)
(* findFunctionScopeAtIndex), the text mutators of helpers.ts, and the     *)
(* Vite plugin customDirectives (configResolved, handleHotUpdate,          *)
(* transform).                                                             *)
(***************************************************************************)
EXTENDS Integers, Sequences, FiniteSets, TLC

(***************************************************************************)
(* Bounds of the model.                                                    *)
(***************************************************************************)
\* number of distinct handler objects that carry the same name
MaxHandlersPerName == 2
\* number of tokens of an input file
MaxTokens == 5
\* number of elements and text pieces of an input given to the text mutators
MaxPieces == 3
\* number of lines of the source file given to the plugin
MaxLines == 2

VARIABLES
  heap,          \* the objects assigned to this.directives that are still referenced
  directives,    \* DirectiveRegistry.directives: a reference into heap
  registered,    \* history: name -> the handler last registered since the last clear
  overwritten,   \* history: names registered again, with another handler, since the last clear
  clearedNames,  \* history: names registered before a clear and not again since
  snapshot,      \* the reference getAllDirectives last returned to its caller
  source,        \* the input file as the sequence of tokens it was written from
  code,          \* the input file as the resolver sees it: a sequence of characters
  call,          \* the last call of the resolver, a mutator or the plugin, and what it returned
  rootDir,              \* customDirectives: rootDir
  directivesRegistered, \* customDirectives: directivesRegistered
  mainTransformed,      \* customDirectives: mainTransformed
  disk           \* the directory src/directives under the root: its handler definitions

registryVars ==
  <<heap, directives, registered, overwritten, clearedNames, snapshot>>

scopeVars == <<source, code, call>>

pluginVars == <<rootDir, directivesRegistered, mainTransformed, disk>>

vars == <<registryVars, scopeVars, pluginVars>>

\* the directory src/directives when it does not exist
NoDirectory == [exists |-> FALSE, files |-> <<>>]

\* the plugin as customDirectives() returns it, in a project without directives
PluginIdle ==
  /\ rootDir = <<>>
  /\ directivesRegistered = FALSE
  /\ mainTransformed = FALSE
  /\ disk = NoDirectory

(***************************************************************************)
(* JavaScript values and plain objects, as far as the registry uses them.  *)
(***************************************************************************)
\* the directive names the model registers and looks up: an ordinary one, one
\* that Object.prototype defines as a method, and the prototype accessor
Names == {"cat", "toString", "__proto__"}

Undefined == [kind |-> "undefined"]
NoValue == [kind |-> "none"]
ObjectPrototype == [kind |-> "Object.prototype"]
Builtin(k) == [kind |-> "builtin", key |-> k]
StringValue(s) == [kind |-> "string", s |-> s]
FunctionValue(f) == [kind |-> "function", fn |-> f]

\* a DirectiveHandler object { name, handler }
DirectiveHandler ==
  [kind : {"handler"}, name : Names, fn : 1..MaxHandlersPerName]

\* the properties every plain object inherits from Object.prototype
ObjectPrototypeKeys ==
  {"toString", "constructor", "__proto__", "hasOwnProperty", "valueOf"}

\* {} : no own property, prototype Object.prototype
EmptyObject == [own |-> <<>>, proto |-> ObjectPrototype]

OwnIndexes(o, k) == {i \in 1..Len(o.own) : o.own[i].key = k}

HasOwn(o, k) == OwnIndexes(o, k) # {}

\* mutant of SetProp: an assignment that always adds a property
SetPropAppend(o, k, v) ==
  IF k = "__proto__"
    THEN [o EXCEPT !.proto = v]
    ELSE [o EXCEPT !.own = Append(@, [key |-> k, value |-> v])]

\* o[k] = v on a plain object: the __proto__ setter of Object.prototype
\* replaces the prototype when v is an object, any other key writes the own
\* property of that name, creating it when it is missing
SetProp(o, k, v) ==
  IF k = "__proto__"
    THEN [o EXCEPT !.proto = v]
    ELSE IF HasOwn(o, k)
      THEN [o EXCEPT !.own = [i \in 1..Len(@) |->
                                IF @[i].key = k THEN [key |-> k, value |-> v]
                                ELSE @[i]]]
      ELSE [o EXCEPT !.own = Append(@, [key |-> k, value |-> v])]

\* the lookup of k on Object.prototype
PrototypeGet(k) == IF k \in ObjectPrototypeKeys THEN Builtin(k) ELSE Undefined

\* o[k]: the __proto__ getter, else the own property, else the prototype chain
GetProp(o, k) ==
  IF k = "__proto__" THEN o.proto
  ELSE IF HasOwn(o, k)
    THEN o.own[CHOOSE i \in OwnIndexes(o, k) : \A j \in OwnIndexes(o, k) : i <= j].value
  ELSE IF o.proto.kind = "handler"
    THEN IF k = "name" THEN StringValue(o.proto.name)
         ELSE IF k = "handler" THEN FunctionValue(o.proto.fn)
         ELSE PrototypeGet(k)
  ELSE PrototypeGet(k)

\* k in o: own or inherited
HasProp(o, k) ==
  \/ HasOwn(o, k)
  \/ o.proto.kind = "handler" /\ k \in {"name", "handler"}
  \/ k \in ObjectPrototypeKeys

(***************************************************************************)
(* DirectiveRegistry                                                       *)
(***************************************************************************)
\* getDirective(name): this.directives[name]
getDirective(name) == GetProp(heap[directives], name)

\* isDirective(name): name in this.directives
isDirective(name) == HasProp(heap[directives], name)

RegistryInit ==
  /\ heap = (1 :> EmptyObject)
  /\ directives = 1
  /\ registered = [n \in Names |-> NoValue]
  /\ overwritten = {}
  /\ clearedNames = {}
  /\ snapshot = NoValue
  /\ source = <<>>
  /\ code = <<>>
  /\ call = [op |-> "none"]
  /\ PluginIdle

\* the objects still referenced: by this.directives (d) or by the caller that
\* holds the result of getAllDirectives (s); the others are garbage
Live(d, s) == {d} \cup (IF s = NoValue THEN {} ELSE {s.ref})

\* a reference that no live object has: the new object of clear()
Fresh(s) == IF s # NoValue /\ s.ref = 1 THEN 2 ELSE 1

\* register(handler): this.directives[handler.name] = handler
register(handler) ==
  /\ heap' = [heap EXCEPT ![directives] = SetProp(@, handler.name, handler)]
  /\ registered' = [registered EXCEPT ![handler.name] = handler]
  /\ overwritten' = IF registered[handler.name] \notin {NoValue, handler}
                      THEN overwritten \cup {handler.name} ELSE overwritten
  /\ clearedNames' = clearedNames \ {handler.name}
  /\ UNCHANGED <<directives, snapshot, scopeVars, pluginVars>>

\* clear(): this.directives = {}
clear ==
  /\ directives' = Fresh(snapshot)
  /\ heap' = [r \in Live(directives', snapshot) |->
                IF r = directives' THEN EmptyObject ELSE heap[r]]
  /\ clearedNames' = clearedNames \cup {n \in Names : registered[n] # NoValue}
  /\ registered' = [n \in Names |-> NoValue]
  /\ overwritten' = {}
  /\ UNCHANGED <<snapshot, scopeVars, pluginVars>>

\* getAllDirectives(): return this.directives (the reference itself)
getAllDirectives ==
  /\ snapshot' = [kind |-> "reference", ref |-> directives]
  /\ heap' = [r \in Live(directives, snapshot') |-> heap[r]]
  /\ UNCHANGED <<directives, registered, overwritten, clearedNames, scopeVars, pluginVars>>

RegistryNext ==
  \/ \E h \in DirectiveHandler : register(h)
  \/ clear
  \/ getAllDirectives

RegistrySpec == RegistryInit /\ [][RegistryNext]_vars

(***************************************************************************)
(* Source text.  A text is a sequence of characters (strings of length 1), *)
(* indexed from 0 as in JavaScript.  The input files are written from the  *)
(* tokens below; the resolver only ever sees the characters.               *)
(***************************************************************************)
Null == [kind |-> "null"]

\* the characters of each token
TokenText ==
  [FN  |-> <<"f","u","n","c","t","i","o","n"," ","f","(",")">>,
   CN  |-> <<"c","o","n","s","t"," ","g","=">>,
   LB  |-> <<"{">>,
   RB  |-> <<"}">>,
   BLK |-> <<"{","}">>,
   MK  |-> <<"\"","u","s","e"," ","m","\"">>,
   MN  |-> <<"\"","u","s","e"," ","n","\"">>,
   WS  |-> <<" ">>,
   STR |-> <<"\"","\\","\"","}","\"">>]

Tokens == DOMAIN TokenText

\* the directive name the resolver is asked for: "m"
DirectiveName == <<"m">>

RECURSIVE Text(_)
Text(toks) ==
  IF toks = <<>> THEN <<>> ELSE TokenText[Head(toks)] \o Text(Tail(toks))

\* code[i]
At(text, i) == text[i + 1]

\* code.substring(from, to)
Substring(text, from, to) == SubSeq(text, from + 1, to)

Min(S) == CHOOSE x \in S : \A y \in S : x <= y

\* \s of the regular expressions, and what trim() strips
Whitespace == {" ", "\t", "\n", "\r"}

Letters ==
  {"a","b","c","d","e","f","g","h","i","j","k","l","m","n","o","p","q","r",
   "s","t","u","v","w","x","y","z",
   "A","B","C","D","E","F","G","H","I","J","K","L","M","N","O","P","Q","R",
   "S","T","U","V","W","X","Y","Z"}

Digits == {"0","1","2","3","4","5","6","7","8","9"}

\* [A-Za-z_$] and [A-Za-z0-9_$]
IdentStart == Letters \cup {"_", "$"}
IdentChar == IdentStart \cup Digits

\* text has the characters of word at offset p
StartsWithAt(text, word, p) ==
  /\ p + Len(word) <= Len(text)
  /\ \A k \in 1..Len(word) : text[p + k] = word[k]

\* the offset after the longest run of characters of class at offset p
RunEnd(text, class, p) ==
  Min({j \in p..Len(text) : j = Len(text) \/ At(text, j) \notin class})

(***************************************************************************)
(* helpers.ts: the scope resolver                                          *)
(***************************************************************************)
\* mutant of DirectiveMatchEnd: the pattern without the directive name
DirectiveMatchEndAnyName(text, name, p) ==
  IF ~StartsWithAt(text, <<"\"","u","s","e">>, p) THEN -1
  ELSE LET w == RunEnd(text, Whitespace, p + 4)
           e == RunEnd(text, IdentChar, w)
       IN IF w > p + 4 /\ e > w /\ StartsWithAt(text, <<"\"">>, e)
            THEN e + 1 ELSE -1

\* new RegExp(`"use\\s+${directiveName}"`) tried at offset p: the offset after
\* the match, or -1
DirectiveMatchEnd(text, name, p) ==
  IF ~StartsWithAt(text, <<"\"","u","s","e">>, p) THEN -1
  ELSE LET w == RunEnd(text, Whitespace, p + 4)
       IN IF w > p + 4 /\ StartsWithAt(text, name \o <<"\"">>, w)
            THEN w + Len(name) + 1 ELSE -1

\* directivePattern.exec(code) with lastIndex = from: the first match at or
\* after from, or Null
DirectiveExec(text, name, from) ==
  LET hits == {p \in from..(Len(text) - 1) : DirectiveMatchEnd(text, name, p) # -1}
  IN IF hits = {} THEN Null
     ELSE [kind |-> "match", index |-> Min(hits),
           lastIndex |-> DirectiveMatchEnd(text, name, Min(hits))]

\* mutant of ScanBackward: the nearest opening brace, closed or not
RECURSIVE ScanBackwardFirstBrace(_, _, _)
ScanBackwardFirstBrace(text, i, braceCount) ==
  IF i < 0 THEN -1
  ELSE IF At(text, i) = "{" THEN i
  ELSE ScanBackwardFirstBrace(text, i - 1, braceCount)

\* the backward scan for the opening brace, helpers.ts:76-89
RECURSIVE ScanBackward(_, _, _)
ScanBackward(text, i, braceCount) ==
  IF i < 0 THEN -1
  ELSE LET c == At(text, i)
           afterClose == IF c = "}" THEN braceCount + 1 ELSE braceCount
       IN IF c = "{"
            THEN IF afterClose - 1 < 0 THEN i
                 ELSE ScanBackward(text, i - 1, afterClose - 1)
            ELSE ScanBackward(text, i - 1, afterClose)

\* /(?:function|const)\s+([A-Za-z_$][A-Za-z0-9_$]*)\s*(?:\(|=)/ tried at
\* offset p of text: the captured name, or Null
FunctionNameAt(text, p) ==
  LET kw == IF StartsWithAt(text, <<"f","u","n","c","t","i","o","n">>, p) THEN p + 8
            ELSE IF StartsWithAt(text, <<"c","o","n","s","t">>, p) THEN p + 5
            ELSE -1
  IN IF kw = -1 THEN Null
     ELSE LET w == RunEnd(text, Whitespace, kw)
          IN IF w = kw \/ w >= Len(text) \/ At(text, w) \notin IdentStart THEN Null
             ELSE LET e == RunEnd(text, IdentChar, w + 1)
                      t == RunEnd(text, Whitespace, e)
                  IN IF t < Len(text) /\ At(text, t) \in {"(", "="}
                       THEN [kind |-> "match", name |-> Substring(text, w, e)]
                       ELSE Null

\* beforeBrace.match(...) without the g flag: the leftmost match, or Null
FunctionNameMatch(text) ==
  LET hits == {p \in 0..(Len(text) - 1) : FunctionNameAt(text, p) # Null}
  IN IF hits = {} THEN Null ELSE FunctionNameAt(text, Min(hits))

\* the template quote character (a TLA+ string cannot hold it)
Backtick == "BACKTICK"

Quotes == {"\"", "'", Backtick}

\* mutant of ScanForward: braces inside strings are counted too
RECURSIVE ScanForwardNoStrings(_, _, _, _, _)
ScanForwardNoStrings(text, i, braceCount, inString, stringChar) ==
  IF ~(i < Len(text) /\ braceCount > 0) THEN i
  ELSE LET c == At(text, i)
           count == IF c = "{" THEN braceCount + 1
                    ELSE IF c = "}" THEN braceCount - 1 ELSE braceCount
       IN ScanForwardNoStrings(text, i + 1, count, inString, stringChar)

\* mutant of ScanForward: the scan stops on the closing brace, not after it
RECURSIVE ScanForwardStopOnBrace(_, _, _, _, _)
ScanForwardStopOnBrace(text, i, braceCount, inString, stringChar) ==
  IF ~(i < Len(text) /\ braceCount > 0) THEN i
  ELSE LET c == At(text, i)
           opens == ~inString /\ c \in Quotes
           closes == ~opens /\ inString /\ c = stringChar /\ At(text, i - 1) # "\\"
           inString1 == IF opens THEN TRUE ELSE IF closes THEN FALSE ELSE inString
           stringChar1 == IF opens THEN c ELSE stringChar
           count == IF inString1 THEN braceCount
                    ELSE IF c = "{" THEN braceCount + 1
                    ELSE IF c = "}" THEN braceCount - 1 ELSE braceCount
       IN IF count = 0 THEN i
          ELSE ScanForwardStopOnBrace(text, i + 1, count, inString1, stringChar1)

\* mutant of ScanForward: the loop stops one character before the end of the text
RECURSIVE ScanForwardShort(_, _, _, _, _)
ScanForwardShort(text, i, braceCount, inString, stringChar) ==
  IF ~(i < Len(text) - 1 /\ braceCount > 0) THEN i
  ELSE LET c == At(text, i)
           opens == ~inString /\ c \in Quotes
           closes == ~opens /\ inString /\ c = stringChar /\ At(text, i - 1) # "\\"
           inString1 == IF opens THEN TRUE ELSE IF closes THEN FALSE ELSE inString
           stringChar1 == IF opens THEN c ELSE stringChar
           count == IF inString1 THEN braceCount
                    ELSE IF c = "{" THEN braceCount + 1
                    ELSE IF c = "}" THEN braceCount - 1 ELSE braceCount
       IN ScanForwardShort(text, i + 1, count, inString1, stringChar1)

\* the forward scan for the closing brace, helpers.ts:113-133: the value of
\* closingBraceIndex when the loop ends
RECURSIVE ScanForward(_, _, _, _, _)
ScanForward(text, i, braceCount, inString, stringChar) ==
  IF ~(i < Len(text) /\ braceCount > 0) THEN i
  ELSE LET c == At(text, i)
           opens == ~inString /\ c \in Quotes
           closes == ~opens /\ inString /\ c = stringChar /\ At(text, i - 1) # "\\"
           inString1 == IF opens THEN TRUE ELSE IF closes THEN FALSE ELSE inString
           stringChar1 == IF opens THEN c ELSE stringChar
           count == IF inString1 THEN braceCount
                    ELSE IF c = "{" THEN braceCount + 1
                    ELSE IF c = "}" THEN braceCount - 1 ELSE braceCount
       IN ScanForward(text, i + 1, count, inString1, stringChar1)

Scope(name, text, from, to) ==
  [kind |-> "scope", functionName |-> name, functionCode |-> Substring(text, from, to),
   startIndex |-> from, endIndex |-> to]

\* the scope getAllDirectiveScopes returns for a directive at the start of the file
GlobalScope(text) == Scope(<<"g","l","o","b","a","l">>, text, 0, Len(text))

findFunctionScopeAtIndex(text, directiveIndex) ==
  LET functionStartIndex == ScanBackward(text, directiveIndex - 1, 0)
  IN IF functionStartIndex = -1 THEN Null
     ELSE LET functionNameMatch ==
                FunctionNameMatch(Substring(text, 0, functionStartIndex))
          IN IF functionNameMatch = Null THEN Null
             ELSE LET closingBraceIndex ==
                        ScanForward(text, functionStartIndex + 1, 1, FALSE, "")
                  IN Scope(functionNameMatch.name, text,
                           functionStartIndex, closingBraceIndex)

getDirectiveScope(text, directiveName) ==
  LET directiveMatch == DirectiveExec(text, directiveName, 0)
  IN IF directiveMatch = Null THEN Null
     ELSE findFunctionScopeAtIndex(text, directiveMatch.index)

\* code.substring(0, index).trim() === ""
OnlyWhitespaceBefore(text, index) ==
  \A k \in 0..(index - 1) : At(text, k) \in Whitespace

\* mutant of AtStartOfFile: only a directive at offset 0 counts
AtStartOfFileOffsetZero(text, index) == index = 0

\* match.index === 0 || code.substring(0, match.index).trim() === ""
AtStartOfFile(text, index) == index = 0 \/ OnlyWhitespaceBefore(text, index)

\* the while loop of getAllDirectiveScopes, from lastIndex on
RECURSIVE CollectScopes(_, _, _, _)
CollectScopes(text, directiveName, lastIndex, scopes) ==
  LET match == DirectiveExec(text, directiveName, lastIndex)
  IN IF match = Null THEN scopes
     ELSE IF AtStartOfFile(text, match.index) THEN <<GlobalScope(text)>>
     ELSE LET scope == findFunctionScopeAtIndex(text, match.index)
          IN CollectScopes(text, directiveName, match.lastIndex,
                           IF scope # Null THEN Append(scopes, scope) ELSE scopes)

getAllDirectiveScopes(text, directiveName) ==
  CollectScopes(text, directiveName, 0, <<>>)

(***************************************************************************)
(* The resolver applied to every input file of at most MaxTokens tokens.   *)
(***************************************************************************)
NoCall == [op |-> "none"]

Sources == UNION {[1..n -> Tokens] : n \in 0..MaxTokens}

RegistryIdle ==
  /\ heap = (1 :> EmptyObject)
  /\ directives = 1
  /\ registered = [n \in Names |-> NoValue]
  /\ overwritten = {}
  /\ clearedNames = {}
  /\ snapshot = NoValue

ScopeInit ==
  /\ source \in Sources
  /\ code = Text(source)
  /\ call = NoCall
  /\ RegistryIdle
  /\ PluginIdle

getDirectiveScopeCall ==
  /\ call.op # "getDirectiveScope"
  /\ call' = [op |-> "getDirectiveScope",
              result |-> getDirectiveScope(code, DirectiveName)]
  /\ UNCHANGED <<source, code, registryVars, pluginVars>>

getAllDirectiveScopesCall ==
  /\ call.op # "getAllDirectiveScopes"
  /\ call' = [op |-> "getAllDirectiveScopes",
              result |-> getAllDirectiveScopes(code, DirectiveName)]
  /\ UNCHANGED <<source, code, registryVars, pluginVars>>

ScopeNext == getDirectiveScopeCall \/ getAllDirectiveScopesCall

ScopeSpec == ScopeInit /\ [][ScopeNext]_vars

(***************************************************************************)
(* Claims about the scope resolver, checked under ScopeSpec.  What a claim *)
(* expects is stated on the tokens the file was written from, or by        *)
(* counting characters, never by the resolver's own scans.                 *)
(***************************************************************************)
Max(S) == CHOOSE x \in S : \A y \in S : y <= x

\* the offset of the first character of token k
TokenOffset(toks, k) == Len(Text(SubSeq(toks, 1, k - 1)))

\* the tokens that are the directive "use m"
Markers(toks) == {k \in 1..Len(toks) : toks[k] = "MK"}

HasMarker == Markers(source) # {}

FirstMarker == Min(Markers(source))

\* the offset of the first occurrence of the directive
FirstMarkerOffset == TokenOffset(source, FirstMarker)

Count(text, ch, from, to) ==
  Cardinality({k \in from..(to - 1) : At(text, k) = ch})

\* the opening braces before offset i that no closing brace before i closes
UnbalancedOpens(text, i) ==
  {j \in 0..(i - 1) : /\ At(text, j) = "{"
                      /\ Count(text, "{", j, i) > Count(text, "}", j, i)}

\* the quote that is open after each character from offset from on: a string
\* region runs from a quote character to the next occurrence of the same
\* character that does not directly follow a backslash
RECURSIVE OpenQuotes(_, _, _, _)
OpenQuotes(text, i, open, acc) ==
  IF i >= Len(text) THEN acc
  ELSE LET c == At(text, i)
           now == IF open = "" THEN (IF c \in Quotes THEN c ELSE "")
                  ELSE IF c = open /\ At(text, i - 1) # "\\" THEN "" ELSE open
       IN OpenQuotes(text, i + 1, now, Append(acc, now))

\* the closing braces after the brace at offset from that balance it, counting
\* only the braces outside string regions
BalancingBraces(text, from) ==
  LET quotes == OpenQuotes(text, from + 1, "", <<>>)
      Outside(k) == quotes[k - from] = ""
      Braces(ch, j) == Cardinality({k \in (from + 1)..j : At(text, k) = ch /\ Outside(k)})
  IN {j \in (from + 1)..(Len(text) - 1) :
        /\ At(text, j) = "}"
        /\ Outside(j)
        /\ Braces("{", j) + 1 = Braces("}", j)}

\* the scopes the last call returned
Returned ==
  IF call.op = "getDirectiveScope"
    THEN IF call.result = Null THEN {} ELSE {call.result}
  ELSE IF call.op = "getAllDirectiveScopes"
    THEN {call.result[i] : i \in 1..Len(call.result)}
  ELSE {}

\* the scopes returned for a directive inside a function
FunctionScopes == {r \in Returned : r # GlobalScope(code)}

\* C4 as stated: for a directive with no unbalanced opening brace before it,
\* getDirectiveScope returns the global scope (the whole text), not null.
TopLevelDirectiveIsGlobal ==
  (call.op = "getDirectiveScope" /\ HasMarker
     /\ UnbalancedOpens(code, FirstMarkerOffset) = {})
    => call.result = GlobalScope(code)

\* C4 amended: for a directive with no unbalanced opening brace before it,
\* getDirectiveScope returns null.
TopLevelDirectiveIsNull ==
  (call.op = "getDirectiveScope" /\ HasMarker
     /\ UnbalancedOpens(code, FirstMarkerOffset) = {})
    => call.result = Null

\* C4 witness: getDirectiveScope was called on a file whose directive follows
\* a closed function.
TopLevelDirectiveWitness ==
  /\ call.op = "getDirectiveScope"
  /\ HasMarker
  /\ UnbalancedOpens(code, FirstMarkerOffset) = {}
  /\ Count(code, "{", 0, FirstMarkerOffset) > 0
  /\ call.result = Null

\* C5 as stated: endIndex is the offset of the closing brace that balances the
\* brace at startIndex, counting only braces outside string regions.
EndIndexIsBalancingBrace ==
  \A r \in FunctionScopes :
    BalancingBraces(code, r.startIndex) # {} =>
      r.endIndex = Min(BalancingBraces(code, r.startIndex))

\* C5 amended: endIndex is one past the offset of the first closing brace that
\* balances the brace at startIndex, counting only braces outside string
\* regions; it is the length of the text when there is no such brace.
EndIndexIsPastBalancingBrace ==
  \A r \in FunctionScopes :
    /\ At(code, r.startIndex) = "{"
    /\ r.endIndex = IF BalancingBraces(code, r.startIndex) = {} THEN Len(code)
                    ELSE Min(BalancingBraces(code, r.startIndex)) + 1

\* C5 witness: a scope was returned whose body holds a closing brace inside a
\* string, before the brace that closes it.
EndIndexWitness ==
  \E r \in FunctionScopes :
    /\ BalancingBraces(code, r.startIndex) # {}
    /\ r.endIndex = Min(BalancingBraces(code, r.startIndex)) + 1
    /\ \E k \in 1..Len(source) :
         /\ source[k] = "STR"
         /\ TokenOffset(source, k) > r.startIndex
         /\ TokenOffset(source, k) < r.endIndex

\* a token sequence of balanced brace pairs and brace-free text
RECURSIVE Depth(_)
Depth(toks) ==
  IF toks = <<>> THEN 0
  ELSE Depth(SubSeq(toks, 1, Len(toks) - 1))
         + (IF toks[Len(toks)] = "LB" THEN 1
            ELSE IF toks[Len(toks)] = "RB" THEN -1 ELSE 0)

NestedPairs(toks) ==
  /\ \A k \in 1..Len(toks) : toks[k] \in {"LB", "RB", "BLK", "WS", "MN", "MK", "FN", "CN"}
  /\ \A k \in 1..Len(toks) : Depth(SubSeq(toks, 1, k)) >= 0
  /\ Depth(toks) = 0

\* <<b, c>>: the first directive stands in the body of a named function whose
\* braces are the tokens b and c, among balanced nested brace pairs
EnclosingFunctions ==
  IF ~HasMarker THEN {}
  ELSE {bc \in (2..Len(source)) \X (2..Len(source)) :
          /\ bc[1] < FirstMarker /\ FirstMarker < bc[2]
          /\ source[bc[1]] = "LB" /\ source[bc[2]] = "RB"
          /\ source[bc[1] - 1] \in {"FN", "CN"}
          /\ NestedPairs(SubSeq(source, bc[1] + 1, FirstMarker - 1))
          /\ NestedPairs(SubSeq(source, FirstMarker + 1, bc[2] - 1))}

\* C6: for a directive in the body of a named function, among any number of
\* balanced nested brace pairs before or after it, getDirectiveScope returns
\* the scope that starts at the function's opening brace and whose body runs
\* to the function's own closing brace.
BodyIsWholeFunction ==
  call.op = "getDirectiveScope" =>
    \A bc \in EnclosingFunctions :
      /\ call.result # Null
      /\ call.result.startIndex = TokenOffset(source, bc[1])
      /\ call.result.functionCode =
           Text(SubSeq(source, bc[1], bc[2]))

\* C6 witness: the function body has a nested brace pair before the directive.
BodyIsWholeFunctionWitness ==
  /\ call.op = "getDirectiveScope"
  /\ \E bc \in EnclosingFunctions :
       /\ \E k \in (bc[1] + 1)..(FirstMarker - 1) : source[k] \in {"BLK", "LB"}
       /\ call.result # Null
       /\ call.result.startIndex = TokenOffset(source, bc[1])

\* the name declared by the token before the brace at offset start, if that
\* token is a declaration
DeclaredNames(start) ==
  {n \in {<<"f">>, <<"g">>} :
     \E k \in 2..Len(source) :
       /\ source[k] = "LB" /\ TokenOffset(source, k) = start
       /\ \/ source[k - 1] = "FN" /\ n = <<"f">>
          \/ source[k - 1] = "CN" /\ n = <<"g">>}

\* C7: the name of a returned scope is the name of the declaration that ends
\* at the brace at startIndex, also when other declarations occur earlier.
NameIsNearestDeclaration ==
  \A r \in FunctionScopes :
    \A n \in DeclaredNames(r.startIndex) : r.functionName = n

\* the first token that is not whitespace
NonWhitespace == {k \in 1..Len(source) : source[k] # "WS"}

DirectiveLeadsFile ==
  NonWhitespace # {} /\ source[Min(NonWhitespace)] = "MK"

\* C8: when nothing but whitespace precedes a directive, getAllDirectiveScopes
\* returns exactly one scope, named "global", whose body is the whole text.
LeadingDirectiveIsGlobal ==
  (call.op = "getAllDirectiveScopes" /\ DirectiveLeadsFile) =>
    /\ Len(call.result) = 1
    /\ call.result[1].functionName = <<"g","l","o","b","a","l">>
    /\ call.result[1].functionCode = code
    /\ call.result[1].startIndex = 0
    /\ call.result[1].endIndex = Len(code)

\* C8 witness: whitespace, then the directive, and the directive again inside
\* a function, where a function scope would be found for it.
LeadingDirectiveWitness ==
  /\ call.op = "getAllDirectiveScopes"
  /\ DirectiveLeadsFile
  /\ source[1] = "WS"
  /\ \E k \in Markers(source) :
       /\ k # FirstMarker
       /\ findFunctionScopeAtIndex(code, TokenOffset(source, k)) # Null
  /\ Len(call.result) = 1

\* the opening brace the first directive is resolved to: the nearest one
\* before it that is not closed before it (-1 when there is none)
OpeningBrace ==
  IF UnbalancedOpens(code, FirstMarkerOffset) = {} THEN -1
  ELSE Max(UnbalancedOpens(code, FirstMarkerOffset))

Unbalanced ==
  /\ HasMarker
  /\ OpeningBrace # -1
  /\ BalancingBraces(code, OpeningBrace) = {}

\* a function or const declaration stands before the opening brace
DeclarationBefore(start) ==
  \E k \in 1..Len(source) :
    /\ source[k] \in {"FN", "CN"}
    /\ TokenOffset(source, k + 1) <= start

\* C9 as stated: when the opening brace found for the directive has no
\* matching closing brace, the resolver returns a scope whose endIndex is the
\* length of the text.
UnbalancedIsClamped ==
  (call.op = "getDirectiveScope" /\ Unbalanced) =>
    call.result # Null /\ call.result.endIndex = Len(code)

\* C9 amended: when the opening brace found for the directive has no matching
\* closing brace, the resolver returns null if no function or const
\* declaration precedes that brace, and otherwise a scope that starts at the
\* brace and whose endIndex is the length of the text.
UnbalancedIsClampedOrNull ==
  (call.op = "getDirectiveScope" /\ Unbalanced) =>
    IF DeclarationBefore(OpeningBrace)
      THEN /\ call.result # Null
           /\ call.result.startIndex = OpeningBrace
           /\ call.result.endIndex = Len(code)
      ELSE call.result = Null

\* C9 witness: a function that is never closed, and text after the directive.
UnbalancedWitness ==
  /\ call.op = "getDirectiveScope"
  /\ Unbalanced
  /\ FirstMarker < Len(source)
  /\ call.result # Null
  /\ call.result.endIndex = Len(code)

\* C10: when the directive does not occur in the text, getDirectiveScope
\* returns null and getAllDirectiveScopes returns the empty sequence.
AbsentDirectiveIsNotFound ==
  ~HasMarker =>
    /\ call.op = "getDirectiveScope" => call.result = Null
    /\ call.op = "getAllDirectiveScopes" => call.result = <<>>

\* C10 witness: the file has another directive inside a named function, and
\* none named m.
AbsentDirectiveWitness ==
  /\ ~HasMarker
  /\ call.op = "getAllDirectiveScopes"
  /\ \E k \in 3..Len(source) :
       source[k] = "MN" /\ source[k - 1] = "LB" /\ source[k - 2] \in {"FN", "CN"}
  /\ call.result = <<>>

(***************************************************************************)
(* Claims about the registry, checked under RegistrySpec.                  *)
(***************************************************************************)
\* the places of object o that hold an entry under name n: the own
\* properties of that name, and the prototype link when a handler was
\* assigned to "__proto__"
EntryCount(o, n) ==
  Cardinality(OwnIndexes(o, n))
    + (IF n = "__proto__" /\ o.proto.kind = "handler" THEN 1 ELSE 0)

\* C1: after register(a) and then register(a') under the same name, with no
\* clear in between, getDirective(name) returns a' (the last one registered)
\* and the registry holds exactly one entry under that name.
LastWriteWins ==
  \A n \in Names :
    registered[n] # NoValue =>
      /\ getDirective(n) = registered[n]
      /\ isDirective(n)
      /\ EntryCount(heap[directives], n) = 1

\* C1 witness: a name was registered twice with different handlers and the
\* lookup returns the second.
LastWriteWinsWitness ==
  \E n \in overwritten : getDirective(n) = registered[n]

\* C2: after clear(), isDirective(name) is false and getDirective(name) is
\* "not found" for every name registered before the clear, until the name is
\* registered again.
ClearedNamesAreGone ==
  \A n \in clearedNames : ~isDirective(n) /\ getDirective(n) = Undefined

\* C3: the mapping getAllDirectives returned is not changed by any register or
\* clear call made after it returned.
SnapshotIsStable ==
  [][(snapshot # NoValue /\ snapshot' = snapshot)
       => heap'[snapshot.ref] = heap[snapshot.ref]]_vars

(***************************************************************************)
(* helpers.ts: the text mutators.  Each regular expression is modelled by  *)
(* a matcher that tries it at one offset, with the greedy choices and the  *)
(* backtracking of the JavaScript engine, and String.replace with the g    *)
(* flag by ReplaceAll.                                                     *)
(***************************************************************************)
\* [^>]
NotGt(text) == {text[k] : k \in 1..Len(text)} \ {">"}

\* a match of a pattern: the offset after it, and what replaces it
NoMatch == [end |-> -1]

\* String.prototype.replace with a global pattern: matches[p + 1] is the
\* match of the pattern at offset p (NoMatch when there is none); the search
\* goes on after each match
RECURSIVE ReplaceFrom(_, _, _)
ReplaceFrom(text, matches, from) ==
  LET hits == {p \in from..(Len(text) - 1) : matches[p + 1].end # -1}
  IN IF hits = {} THEN Substring(text, from, Len(text))
     ELSE LET p == Min(hits)
          IN Substring(text, from, p) \o matches[p + 1].by
               \o ReplaceFrom(text, matches, matches[p + 1].end)

ReplaceAll(text, matches) == ReplaceFrom(text, matches, 0)

\* (<${componentName}(?:\s[^>]*)?)([\s/>]) tried at offset p, replaced by
\* $1 ${propName}="${propValue}"$2
AddPropMatch(text, componentName, propName, propValue, p) ==
  IF ~StartsWithAt(text, <<"<">> \o componentName, p) THEN NoMatch
  ELSE LET a == p + 1 + Len(componentName)
           \* the end of the longest (?:\s[^>]*)?
           q == IF a < Len(text) /\ At(text, a) \in Whitespace
                  THEN RunEnd(text, NotGt(text), a + 1) ELSE a
           \* where [\s/>] can match, the group giving back characters
           cands == {j \in a..q : j < Len(text)
                                   /\ At(text, j) \in Whitespace \cup {"/", ">"}}
       IN IF cands = {} THEN NoMatch
          ELSE LET j == CHOOSE x \in cands : \A y \in cands : y <= x
               IN [end |-> j + 1,
                   by |-> Substring(text, p, j) \o <<" ">> \o propName
                            \o <<"=", "\"">> \o propValue \o <<"\"">>
                            \o <<At(text, j)>>]

addProp(text, componentName, propName, propValue) ==
  ReplaceAll(text, [k \in 1..Len(text) |->
                      AddPropMatch(text, componentName, propName, propValue, k - 1)])

\* (?:=(?:"[^"]*"|'[^']*'))? tried at offset b: the offset after a quoted
\* value, or -1 when there is none
QuotedValueEnd(text, b) ==
  IF b + 1 < Len(text) /\ At(text, b) = "=" /\ At(text, b + 1) \in {"\"", "'"}
    THEN LET closes == {c \in (b + 2)..(Len(text) - 1) : At(text, c) = At(text, b + 1)}
         IN IF closes = {} THEN -1 ELSE Min(closes) + 1
    ELSE -1

\* \s${propName} at offset k
PropAt(text, propName, k) ==
  /\ k < Len(text)
  /\ At(text, k) \in Whitespace
  /\ StartsWithAt(text, propName, k + 1)

\* \s${propName}(?:=(?:"[^"]*"|'[^']*'))? removed once from the matched tag
RemoveFirstProp(tag, propName) ==
  LET hits == {k \in 0..(Len(tag) - 1) : PropAt(tag, propName, k)}
  IN IF hits = {} THEN tag
     ELSE LET k == Min(hits)
              b == k + 1 + Len(propName)
              e == IF QuotedValueEnd(tag, b) # -1 THEN QuotedValueEnd(tag, b) ELSE b
          IN Substring(tag, 0, k) \o Substring(tag, e, Len(tag))

\* <${componentName}[^>]*\s${propName}(?:=(?:"[^"]*"|'[^']*'))?[^>]*> tried
\* at offset p, replaced by the match without its first such property
RemovePropMatch(text, componentName, propName, p) ==
  IF ~StartsWithAt(text, <<"<">> \o componentName, p) THEN NoMatch
  ELSE LET a == p + 1 + Len(componentName)
           g0 == RunEnd(text, NotGt(text), a)
           \* the end of the match when \s${propName} is taken at offset i
           EndFrom(i) ==
             LET b == i + 1 + Len(propName)
                 v == QuotedValueEnd(text, b)
                 withValue == IF v = -1 THEN Len(text) ELSE RunEnd(text, NotGt(text), v)
                 without == RunEnd(text, NotGt(text), b)
             IN IF withValue < Len(text) THEN withValue + 1
                ELSE IF without < Len(text) THEN without + 1
                ELSE -1
           cands == {i \in a..g0 : PropAt(text, propName, i) /\ EndFrom(i) # -1}
       IN IF cands = {} THEN NoMatch
          ELSE LET i == CHOOSE x \in cands : \A y \in cands : y <= x
               IN [end |-> EndFrom(i),
                   by |-> RemoveFirstProp(Substring(text, p, EndFrom(i)), propName)]

removeProp(text, componentName, propName) ==
  ReplaceAll(text, [k \in 1..Len(text) |->
                      RemovePropMatch(text, componentName, propName, k - 1)])

\* [^<]
NotLt(text) == {text[k] : k \in 1..Len(text)} \ {"<"}

\* . (no line terminator)
LineTerminators == {"\n", "\r"}

\* \w
WordChar == Letters \cup Digits \cup {"_"}

\* \b after a name that ends before offset p
BoundaryAt(text, p) == p >= Len(text) \/ At(text, p) \notin WordChar

\* <${componentName}(\s[^>]*)?> tried at offset p: the offset after the open
\* tag and the offsets of $1, or NoMatch
OpenTagMatch(text, componentName, p) ==
  IF ~StartsWithAt(text, <<"<">> \o componentName, p) THEN NoMatch
  ELSE LET a == p + 1 + Len(componentName)
           q == IF a < Len(text) /\ At(text, a) \in Whitespace
                  THEN RunEnd(text, NotGt(text), a + 1) ELSE a
       IN IF q < Len(text) /\ At(text, q) = ">"
            THEN [end |-> q + 1, from |-> a, to |-> q]
            ELSE NoMatch

\* </\s*${componentName}\s*> tried at offset p: the offset after it, or -1
CloseTagEnd(text, componentName, p) ==
  IF ~StartsWithAt(text, <<"<", "/">>, p) THEN -1
  ELSE LET w == RunEnd(text, Whitespace, p + 2)
           e == RunEnd(text, Whitespace, w + Len(componentName))
       IN IF StartsWithAt(text, componentName, w) /\ e < Len(text) /\ At(text, e) = ">"
            THEN e + 1 ELSE -1

\* /?${componentName}\b at offset p, the lookahead of the inner content
TagAhead(text, componentName, p) ==
  LET s == IF p < Len(text) /\ At(text, p) = "/" THEN p + 1 ELSE p
  IN StartsWithAt(text, componentName, s) /\ BoundaryAt(text, s + Len(componentName))

\* [^<]*(?:<(?!/?${componentName}\b)[^<]*)* from offset p, at its longest:
\* the offset of the first "<" that opens or closes the component
ContentEnd(text, componentName, p) ==
  Min({t \in p..(Len(text) - 1) :
         At(text, t) = "<" /\ TagAhead(text, componentName, t + 1)} \cup {Len(text)})

\* .*?</\s*${componentName}\s*> from offset p: the offset after the first
\* close tag of the line, or -1
LazyToCloseTag(text, componentName, p) ==
  LET ends == {e \in p..(Len(text) - 1) :
                 /\ CloseTagEnd(text, componentName, e) # -1
                 /\ \A k \in p..(e - 1) : At(text, k) \notin LineTerminators}
  IN IF ends = {} THEN -1 ELSE CloseTagEnd(text, componentName, Min(ends))

\* the pattern of replaceComponent tried at offset p.  Everything after
\* the open tag can match the empty string, so each part takes its longest
\* match and nothing is given back.
ReplaceComponentMatch(text, componentName, replacementComponent, p) ==
  LET open == OpenTagMatch(text, componentName, p)
  IN IF open = NoMatch THEN NoMatch
     ELSE LET c == ContentEnd(text, componentName, open.end)
              \* (?:<${componentName}[^>]*>.*?</\s*${componentName}\s*>)?
              g == RunEnd(text, NotGt(text), c + 1 + Len(componentName))
              inner == IF StartsWithAt(text, <<"<">> \o componentName, c) /\ g < Len(text)
                         THEN LazyToCloseTag(text, componentName, g + 1) ELSE -1
              \* [^<]*
              t == RunEnd(text, NotLt(text), IF inner = -1 THEN c ELSE inner)
              \* (?:</\s*${componentName}\s*>)?
              close == CloseTagEnd(text, componentName, t)
          IN [end |-> IF close = -1 THEN t ELSE close,
              by |-> <<"<">> \o replacementComponent \o Substring(text, open.from, open.to)
                       \o <<">">> \o Substring(text, open.end, t)
                       \o <<"<", "/">> \o replacementComponent \o <<">">>]

replaceComponent(text, componentName, replacementComponent) ==
  ReplaceAll(text, [k \in 1..Len(text) |->
                      ReplaceComponentMatch(text, componentName, replacementComponent, k - 1)])

\* <${componentName}\s*(?:[^>]*?)\s*/> tried at offset p, replaced by "":
\* the "/>" is the end of the characters other than ">" after the name
SelfClosingMatch(text, componentName, p) ==
  IF ~StartsWithAt(text, <<"<">> \o componentName, p) THEN NoMatch
  ELSE LET a == p + 1 + Len(componentName)
           g == RunEnd(text, NotGt(text), a)
       IN IF g < Len(text) /\ g - 1 >= a /\ At(text, g - 1) = "/"
            THEN [end |-> g + 1, by |-> <<>>]
            ELSE NoMatch

\* <${componentName}(?:\s[^>]*)?>(...)</\s*${componentName}\s*> tried at
\* offset p, replaced by $1: the content gives back text until a close tag
\* follows it
OpenCloseMatch(text, componentName, p) ==
  LET open == OpenTagMatch(text, componentName, p)
  IN IF open = NoMatch THEN NoMatch
     ELSE LET c == ContentEnd(text, componentName, open.end)
              stops == {t \in open.end..c : CloseTagEnd(text, componentName, t) # -1}
          IN IF stops = {} THEN NoMatch
             ELSE LET t == CHOOSE x \in stops : \A y \in stops : y <= x
                  IN [end |-> CloseTagEnd(text, componentName, t),
                      by |-> Substring(text, open.end, t)]

removeComponent(text, componentName) ==
  LET result == ReplaceAll(text, [k \in 1..Len(text) |->
                                    SelfClosingMatch(text, componentName, k - 1)])
  IN ReplaceAll(result, [k \in 1..Len(result) |->
                           OpenCloseMatch(result, componentName, k - 1)])

\* (?:>.*?</\s*${componentName}\s*>|\s*/?>) tried at offset j: the offset
\* after it, or -1
WrapTailEnd(text, componentName, j) ==
  LET paired == IF j < Len(text) /\ At(text, j) = ">"
                  THEN LazyToCloseTag(text, componentName, j + 1) ELSE -1
      w == RunEnd(text, Whitespace, j)
      s == IF w < Len(text) /\ At(text, w) = "/" THEN w + 1 ELSE w
  IN IF paired # -1 THEN paired
     ELSE IF s < Len(text) /\ At(text, s) = ">" THEN s + 1
     ELSE IF w < Len(text) /\ At(text, w) = ">" THEN w + 1
     ELSE -1

\* the pattern of wrapComponent tried at offset p: the attributes give back
\* characters until the rest of the tag follows them
WrapComponentMatch(text, componentName, wrapperComponent, wrapperProps, p) ==
  IF ~StartsWithAt(text, <<"<">> \o componentName, p) THEN NoMatch
  ELSE LET a == p + 1 + Len(componentName)
           q == IF a < Len(text) /\ At(text, a) \in Whitespace
                  THEN RunEnd(text, NotGt(text), a + 1) ELSE a
           cands == {j \in ({a} \cup (a + 1)..q) :
                       WrapTailEnd(text, componentName, j) # -1}
       IN IF cands = {} THEN NoMatch
          ELSE LET j == CHOOSE x \in cands : \A y \in cands : y <= x
                   e == WrapTailEnd(text, componentName, j)
               IN [end |-> e,
                   by |-> <<"<">> \o wrapperComponent \o wrapperProps \o <<">">>
                            \o Substring(text, p, e)
                            \o <<"<", "/">> \o wrapperComponent \o <<">">>]

wrapComponent(text, componentName, wrapperComponent, wrapperProps) ==
  ReplaceAll(text, [k \in 1..Len(text) |->
                      WrapComponentMatch(text, componentName, wrapperComponent,
                                         wrapperProps, k - 1)])

\* (<${componentName}[^>]*${attributeName}=)"${oldValue}" tried at offset
\* p, replaced by $1"${newValue}"
ReplaceAttributeMatch(text, componentName, attributeName, oldValue, newValue, p) ==
  IF ~StartsWithAt(text, <<"<">> \o componentName, p) THEN NoMatch
  ELSE LET a == p + 1 + Len(componentName)
           g == RunEnd(text, NotGt(text), a)
           found == attributeName \o <<"=", "\"">> \o oldValue \o <<"\"">>
           cands == {i \in a..g : StartsWithAt(text, found, i)}
       IN IF cands = {} THEN NoMatch
          ELSE LET i == CHOOSE x \in cands : \A y \in cands : y <= x
               IN [end |-> i + Len(found),
                   by |-> Substring(text, p, i) \o attributeName
                            \o <<"=", "\"">> \o newValue \o <<"\"">>]

replaceAttribute(text, componentName, attributeName, oldValue, newValue) ==
  ReplaceAll(text, [k \in 1..Len(text) |->
                      ReplaceAttributeMatch(text, componentName, attributeName,
                                            oldValue, newValue, k - 1)])

(***************************************************************************)
(* The mutators applied to every input of at most MaxPieces pieces.        *)
(***************************************************************************)
\* the pieces the inputs are written from: elements of the component B, of a
\* component whose name starts with B, and text
PieceText ==
  [P  |-> <<"<","B",">","t","<","/","B",">">>,
   PA |-> <<"<","B"," ","p","=","\"","1","\"",">","t","<","/","B",">">>,
   PQ |-> <<"<","B"," ","p","x","=","\"","1","\"",">","t","<","/","B",">">>,
   S  |-> <<"<","B","/",">">>,
   SS |-> <<"<","B"," ","/",">">>,
   X  |-> <<"<","B","x","/",">">>,
   XA |-> <<"<","B","x"," ","p","=","\"","1","\"",">","t","<","/","B","x",">">>,
   OB |-> <<"<","B",">">>,
   CB |-> <<"<","/","B",">">>,
   T  |-> <<"t">>]

Pieces == DOMAIN PieceText

RECURSIVE PiecesText(_)
PiecesText(ps) ==
  IF ps = <<>> THEN <<>> ELSE PieceText[Head(ps)] \o PiecesText(Tail(ps))

\* the arguments of the calls
ComponentName == <<"B">>
PropName == <<"p">>
PropValue == <<"2">>
ReplacementComponent == <<"N">>
WrapperComponent == <<"W">>
WrapperProps == <<>>
OldValue == <<"1">>
NewValue == <<"2">>

MutatorInputs == UNION {[1..n -> Pieces] : n \in 0..MaxPieces}

MutatorInit ==
  /\ source \in MutatorInputs
  /\ code = PiecesText(source)
  /\ call = NoCall
  /\ RegistryIdle
  /\ PluginIdle

\* a mutator is called on the input, or on what the call before it returned
Called(op, result) ==
  call' = [op |-> op, after |-> call.op, result |-> result]

addPropCall ==
  /\ call.op = "none"
  /\ Called("addProp", addProp(code, ComponentName, PropName, PropValue))
  /\ UNCHANGED <<source, code, registryVars, pluginVars>>

\* removeProp on the input, or on the result of addProp
removePropCall ==
  /\ call.op \in {"none", "addProp"}
  /\ Called("removeProp",
            removeProp(IF call.op = "none" THEN code ELSE call.result,
                       ComponentName, PropName))
  /\ UNCHANGED <<source, code, registryVars, pluginVars>>

replaceComponentCall ==
  /\ call.op = "none"
  /\ Called("replaceComponent", replaceComponent(code, ComponentName, ReplacementComponent))
  /\ UNCHANGED <<source, code, registryVars, pluginVars>>

removeComponentCall ==
  /\ call.op = "none"
  /\ Called("removeComponent", removeComponent(code, ComponentName))
  /\ UNCHANGED <<source, code, registryVars, pluginVars>>

wrapComponentCall ==
  /\ call.op = "none"
  /\ Called("wrapComponent",
            wrapComponent(code, ComponentName, WrapperComponent, WrapperProps))
  /\ UNCHANGED <<source, code, registryVars, pluginVars>>

replaceAttributeCall ==
  /\ call.op = "none"
  /\ Called("replaceAttribute",
            replaceAttribute(code, ComponentName, PropName, OldValue, NewValue))
  /\ UNCHANGED <<source, code, registryVars, pluginVars>>

MutatorNext ==
  \/ replaceComponentCall
  \/ removeComponentCall
  \/ wrapComponentCall
  \/ replaceAttributeCall
  \/ addPropCall
  \/ removePropCall

MutatorSpec == MutatorInit /\ [][MutatorNext]_vars

(***************************************************************************)
(* The Vite plugin customDirectives(): configResolved, handleHotUpdate and *)
(* transform, with the registry above and the directory src/directives.    *)
(***************************************************************************)
\* code.includes(word)
Includes(text, word) == \E p \in 0..Len(text) : StartsWithAt(text, word, p)

\* id.endsWith(word)
EndsWith(text, word) ==
  Len(word) <= Len(text) /\ StartsWithAt(text, word, Len(text) - Len(word))

\* the directive names of the model: two ordinary ones, one that every
\* plain object inherits, and one with a hyphen
DirectiveNameText ==
  ("cat" :> <<"c","a","t">>) @@ ("dog" :> <<"d","o","g">>) @@ ("toString" :> <<"t","o","S","t","r","i","n","g">>)
    @@ ("my-directive" :> <<"m","y","-","d","i","r","e","c","t","i","v","e">>)

\* the property key that a name read from a text is
Key(name) ==
  IF \E k \in DOMAIN DirectiveNameText : DirectiveNameText[k] = name
    THEN CHOOSE k \in DOMAIN DirectiveNameText : DirectiveNameText[k] = name
    ELSE "unknown"

\* injectComment(baseCode, comment)
injectComment(baseCode, comment) == <<"/", "/", " ">> \o comment \o <<"\n">> \o baseCode

\* what the body of a handler does with the code: it returns the code with a
\* comment that names the directive, returns null, or throws
Bodies == {"comment", "null", "throws"}

Value(text) == [kind |-> "value", value |-> text]
Throws == [kind |-> "throws"]

RunBody(name, body, text) ==
  IF body = "comment" THEN Value(injectComment(text, DirectiveNameText[name]))
  ELSE IF body = "null" THEN Null
  ELSE Throws

\* staticHandler.handler(code): try { return result || code } catch { return code }
StaticCall(name, body, text) ==
  LET result == RunBody(name, body, text)
  IN IF result = Throws THEN Value(text)
     ELSE IF result = Null \/ result.value = <<>> THEN Value(text)
     ELSE result

\* handler.handler(transformedCode) for what getDirective returned: a
\* handler built from a file, a handler registered by the project, or an
\* object without a handler function
CallHandler(handler, text) ==
  IF handler.kind # "handler" THEN Throws
  ELSE IF handler.fn.wrapped THEN StaticCall(handler.name, handler.fn.body, text)
  ELSE RunBody(handler.name, handler.fn.body, text)

\* the handler objects
StaticHandler(name, body) ==
  [kind |-> "handler", name |-> name, fn |-> [wrapped |-> TRUE, body |-> body]]

OwnHandler(name, body) ==
  [kind |-> "handler", name |-> name, fn |-> [wrapped |-> FALSE, body |-> body]]

\* a definition in a file of src/directives:
\*   const x: DirectiveHandler = { name: "...", handler... { ... } };
\* with its name, the way its handler is written, and what its body does
Definition(name, params, body) == [name |-> name, params |-> params, body |-> body]

\* /name\s*:\s*["'](\w+)["']/ on a definition: the name when it is a word
NameMatch(definition) ==
  IF definition.name # <<>>
       /\ \A k \in 1..Len(definition.name) : definition.name[k] \in WordChar
    THEN definition.name ELSE Null

\* /handler\s*\([^)]*\)\s*{/ of transform: handler(code) { and
\* handler({ code }) { match, handler: (code) => { does not
HandlerStartMatch(definition) == definition.params \in {"plain", "destructured"}

\* /handler\s*\(\s*{[^}]*}\s*\)\s*{/ of handleHotUpdate: only
\* handler({ code }) { matches
HotHandlerStartMatch(definition) == definition.params = "destructured"

\* f.endsWith(".ts") || f.endsWith(".tsx")
IsDirectiveSource(file) ==
  EndsWith(file.name, <<".", "t", "s">>) \/ EndsWith(file.name, <<".", "t", "s", "x">>)

\* the files of the directory that readdirSync lists and the filter keeps
RECURSIVE DirectiveSources(_)
DirectiveSources(files) ==
  IF files = <<>> THEN <<>>
  ELSE (IF IsDirectiveSource(Head(files)) THEN <<Head(files)>> ELSE <<>>)
         \o DirectiveSources(Tail(files))

\* the definitions of the listed files, in the order they are read
RECURSIVE Definitions(_)
Definitions(files) ==
  IF files = <<>> THEN <<>> ELSE Head(files).definitions \o Definitions(Tail(files))

\* the loop over the definitions: each one with a name and a handler start
\* is registered, the others are skipped
RECURSIVE RegisterDefinitions(_, _, _)
RegisterDefinitions(object, definitions, hot) ==
  IF definitions = <<>> THEN object
  ELSE LET d == Head(definitions)
           skip == \/ NameMatch(d) = Null
                   \/ ~(IF hot THEN HotHandlerStartMatch(d) ELSE HandlerStartMatch(d))
       IN RegisterDefinitions(
            IF skip THEN object
            ELSE SetProp(object, Key(d.name), StaticHandler(Key(d.name), d.body)),
            Tail(definitions), hot)

\* directiveRegistry.clear() and the registration of every definition found
\* in the directory
RegisteredFrom(directory, hot) ==
  RegisterDefinitions(EmptyObject, Definitions(DirectiveSources(directory.files)), hot)

\* DIRECTIVE_PATTERN = /"use\s+(\w+)";?/g tried at offset p: the offset
\* after the match and the characters of the name
DirectivePatternMatch(text, p) ==
  IF ~StartsWithAt(text, <<"\"", "u", "s", "e">>, p) THEN NoMatch
  ELSE LET w == RunEnd(text, Whitespace, p + 4)
           e == RunEnd(text, WordChar, w)
       IN IF w > p + 4 /\ e > w /\ StartsWithAt(text, <<"\"">>, e)
            THEN [end |-> IF StartsWithAt(text, <<";">>, e + 1) THEN e + 2 ELSE e + 1,
                  name |-> Substring(text, w, e)]
            ELSE NoMatch

\* code.match(DIRECTIVE_PATTERN): the matched strings from offset from on,
\* left to right (the empty sequence for null)
RECURSIVE DirectiveMatches(_, _)
DirectiveMatches(text, from) ==
  LET hits == {p \in from..(Len(text) - 1) : DirectivePatternMatch(text, p) # NoMatch}
  IN IF hits = {} THEN <<>>
     ELSE LET p == Min(hits)
              e == DirectivePatternMatch(text, p).end
          IN <<Substring(text, p, e)>> \o DirectiveMatches(text, e)

\* directiveMatch.match(/"use\s+(\w+)"/)?.[1]
DirectiveNameOf(directiveMatch) ==
  LET hits == {p \in 0..(Len(directiveMatch) - 1) :
                 DirectivePatternMatch(directiveMatch, p) # NoMatch}
  IN IF hits = {} THEN Null
     ELSE DirectivePatternMatch(directiveMatch, Min(hits)).name

\* mutant of Skip: the names already processed are not skipped
SkipUnnamed(directiveName, processedDirectives) == directiveName = Null

\* !directiveName || processedDirectives.has(directiveName)
Skip(directiveName, processedDirectives) ==
  directiveName = Null \/ directiveName \in processedDirectives

\* if (handler): undefined is the only value of getDirective that is not
\* taken for a handler
Truthy(value) == value.kind \notin {"undefined", "null", "none"}

\* the loop of phase 4 over the matches, on the registry object: pass is
\* the text so far, the names processed, the handlers called with the
\* text each was given, and whether a call has thrown
RECURSIVE Dispatch(_, _, _)
Dispatch(matches, object, pass) ==
  IF matches = <<>> \/ pass.thrown THEN pass
  ELSE LET directiveName == DirectiveNameOf(Head(matches))
       IN IF Skip(directiveName, pass.processed)
            THEN Dispatch(Tail(matches), object, pass)
            ELSE LET handler == GetProp(object, Key(directiveName))
                     result == CallHandler(handler, pass.code)
                     processed == pass.processed \cup {directiveName}
                 IN IF ~Truthy(handler)
                      THEN Dispatch(Tail(matches), object,
                                    [pass EXCEPT !.processed = processed])
                      ELSE Dispatch(Tail(matches), object,
                             [code |-> IF result.kind = "value" THEN result.value
                                       ELSE pass.code,
                              processed |-> processed,
                              invoked |-> Append(pass.invoked,
                                                 [name |-> directiveName,
                                                  code |-> pass.code]),
                              thrown |-> result = Throws])

\* phase 4: null for a file without a directive, else the text after the
\* loop when it differs from the code, else nothing
ApplyDirectives(text, object) ==
  LET matches == DirectiveMatches(text, 0)
      pass == Dispatch(matches, object,
                       [code |-> text, processed |-> {}, invoked |-> <<>>,
                        thrown |-> FALSE])
  IN IF matches = <<>> THEN [result |-> Null, invoked |-> <<>>]
     ELSE [result |-> IF pass.thrown THEN Throws
                      ELSE IF pass.code # text THEN Value(pass.code)
                      ELSE Undefined,
           invoked |-> pass.invoked]

\* phase 2: import "./directives/${file}"; for each listed file, joined by
\* "\n", then "\n\n" and the code
RECURSIVE DirectiveImports(_)
DirectiveImports(files) ==
  IF files = <<>> THEN <<>>
  ELSE <<"i","m","p","o","r","t"," ","\"",".","/","d","i","r","e","c","t","i","v","e","s","/">> \o Head(files).name \o <<"\"", ";">>
         \o (IF Len(files) > 1 THEN <<"\n">> ELSE <<>>)
         \o DirectiveImports(Tail(files))

\* /\s*directiveRegistry\.register\([^)]*\)\s*;\s*/g tried at offset p,
\* replaced by ""
RegistrationMatch(text, p) ==
  LET w == RunEnd(text, Whitespace, p)
      open == w + Len(<<"d","i","r","e","c","t","i","v","e","R","e","g","i","s","t","r","y",".","r","e","g","i","s","t","e","r","(">>)
      close == RunEnd(text, {text[k] : k \in 1..Len(text)} \ {")"}, open)
      semi == RunEnd(text, Whitespace, close + 1)
  IN IF StartsWithAt(text, <<"d","i","r","e","c","t","i","v","e","R","e","g","i","s","t","r","y",".","r","e","g","i","s","t","e","r","(">>, w) /\ close < Len(text)
          /\ semi < Len(text) /\ At(text, semi) = ";"
       THEN [end |-> RunEnd(text, Whitespace, semi + 1), by |-> <<>>]
       ELSE NoMatch

\* /\n\s*\n/g tried at offset p, replaced by "\n"
EmptyLineMatch(text, p) ==
  LET w == RunEnd(text, Whitespace, p + 1)
      ends == {j \in (p + 1)..(w - 1) : At(text, j) = "\n"}
  IN IF At(text, p) = "\n" /\ ends # {}
       THEN [end |-> Max(ends) + 1, by |-> <<"\n">>]
       ELSE NoMatch

\* phase 3: the code of a directive file without its registration calls
\* and the empty lines they leave
RemoveRegistration(text) ==
  LET transformedCode ==
        ReplaceAll(text, [k \in 1..Len(text) |-> RegistrationMatch(text, k - 1)])
  IN ReplaceAll(transformedCode,
                [k \in 1..Len(transformedCode) |-> EmptyLineMatch(transformedCode, k - 1)])

\* file.includes("src/directives/") || file.includes("src\\directives\\")
isDirectiveFile(file) ==
  \/ Includes(file, <<"s","r","c","/","d","i","r","e","c","t","i","v","e","s","/">>)
  \/ Includes(file, <<"s","r","c","\\","d","i","r","e","c","t","i","v","e","s","\\">>)

(***************************************************************************)
(* The plugin in a project: its files, its directory of directives and the *)
(* handlers the project registers itself.                                  *)
(***************************************************************************)
\* config.root
Root == <<"/","a">>

\* the ids of the modules Vite hands to the plugin
AppFile == <<"/","a","/","s","r","c","/","A","p","p",".","t","s","x">>
MainFile == <<"/","a","/","s","r","c","/","m","a","i","n",".","t","s","x">>
DirectiveFile == <<"/","a","/","s","r","c","/","d","i","r","e","c","t","i","v","e","s","/","a",".","t","s">>
ModuleFile == <<"/","a","/","n","o","d","e","_","m","o","d","u","l","e","s","/","m",".","j","s">>
StyleFile == <<"/","a","/","s","r","c","/","s",".","c","s","s">>

Ids == {AppFile, MainFile, DirectiveFile, ModuleFile, StyleFile}

\* the lines the modules are written from: the directives of the four
\* names, a statement, and a registration call
LineText ==
  [MC |-> <<"\"","u","s","e"," ","c","a","t","\"",";","\n">>,
   MD |-> <<"\"","u","s","e"," ","d","o","g","\"",";","\n">>,
   MT |-> <<"\"","u","s","e"," ","t","o","S","t","r","i","n","g","\"",";","\n">>,
   MH |-> <<"\"","u","s","e"," ","m","y","-","d","i","r","e","c","t","i","v","e","\"",";","\n">>,
   T  |-> <<"t","(",")",";","\n">>,
   RG |-> <<"d","i","r","e","c","t","i","v","e","R","e","g","i","s","t","r","y",".","r","e","g","i","s","t","e","r","(","h",")",";","\n">>]

RECURSIVE LinesText(_)
LinesText(lines) ==
  IF lines = <<>> THEN <<>> ELSE LineText[Head(lines)] \o LinesText(Tail(lines))

\* the source file of the application
AppLines == UNION {[1..n -> {"MC", "MD", "MT", "MH", "T"}] : n \in 0..MaxLines}

\* the text of each module: the application's source file is the one under
\* study, the other modules have a few fixed texts
TextsOf(id) ==
  IF id = AppFile THEN {code}
  ELSE IF id = MainFile THEN {LinesText(<<"MC">>)}
  ELSE IF id = DirectiveFile THEN {LinesText(<<"T", "RG">>), LinesText(<<"T">>)}
  ELSE {LinesText(<<"MC">>)}

\* the states of the directory src/directives
Directories ==
  {NoDirectory,
   [exists |-> TRUE,
    files |-> <<[name |-> <<"a",".","t","s">>,
                 definitions |-> <<Definition(<<"c","a","t">>, "destructured", "comment")>>]>>],
   [exists |-> TRUE,
    files |-> <<[name |-> <<"a",".","t","s">>,
                 definitions |-> <<Definition(<<"c","a","t">>, "destructured", "comment"),
                                   Definition(<<"d","o","g">>, "plain", "comment")>>],
                [name |-> <<"n",".","m","d">>,
                 definitions |-> <<Definition(<<"t","o","S","t","r","i","n","g">>, "plain", "comment")>>]>>],
   [exists |-> TRUE,
    files |-> <<[name |-> <<"b",".","t","s","x">>,
                 definitions |-> <<Definition(<<"c","a","t">>, "destructured", "throws"),
                                   Definition(<<"m","y","-","d","i","r","e","c","t","i","v","e">>, "destructured", "comment"),
                                   Definition(<<"d","o","g">>, "arrow", "null")>>]>>]}

\* the handlers the project registers with directiveRegistry.register
OwnHandlers ==
  {OwnHandler("cat", "throws"), OwnHandler("dog", "null"),
   OwnHandler("my-directive", "comment")}

\* vite build: the directory and the source file are what they are when
\* the build starts
BuildInit ==
  /\ RegistryIdle
  /\ rootDir = <<>>
  /\ directivesRegistered = FALSE
  /\ mainTransformed = FALSE
  /\ disk \in Directories
  /\ source \in AppLines
  /\ code = LinesText(source)
  /\ call = [op |-> "none", hot |-> FALSE]

\* vite dev: the server starts on a project without directives
DevInit ==
  /\ RegistryIdle
  /\ PluginIdle
  /\ source = <<"MD", "MC">>
  /\ code = LinesText(source)
  /\ call = [op |-> "none", hot |-> FALSE]

\* configResolved(config): rootDir = config.root
configResolved ==
  /\ rootDir' = Root
  /\ UNCHANGED <<registryVars, scopeVars, directivesRegistered, mainTransformed, disk>>

\* the developer creates, edits or deletes the directory src/directives
write(directory) ==
  /\ disk' = directory
  /\ UNCHANGED <<registryVars, scopeVars, rootDir, directivesRegistered, mainTransformed>>

\* the project calls directiveRegistry.register(handler) on the exported
\* registry; the history of RegistrySpec is not kept here
registerOwn(handler) ==
  /\ heap' = [heap EXCEPT ![directives] = SetProp(@, handler.name, handler)]
  /\ UNCHANGED <<directives, registered, overwritten, clearedNames, snapshot,
                 scopeVars, pluginVars>>

\* directiveRegistry.clear() and the registrations that follow it, as one
\* new object
Repopulate(object) ==
  /\ directives' = Fresh(snapshot)
  /\ heap' = [r \in Live(directives', snapshot) |->
                IF r = directives' THEN object ELSE heap[r]]

\* mutant of ResetFlag: the flag keeps its value
KeepFlag(flag) == flag

\* directivesRegistered = false; mainTransformed = false
ResetFlag(flag) == FALSE

\* handleHotUpdate({ file, server })
handleHotUpdate(file) ==
  /\ IF isDirectiveFile(file)
       THEN /\ IF disk.exists
                 THEN Repopulate(RegisteredFrom(disk, TRUE))
                 ELSE UNCHANGED <<heap, directives>>
            /\ directivesRegistered' = ResetFlag(directivesRegistered)
            /\ mainTransformed' = ResetFlag(mainTransformed)
       ELSE UNCHANGED <<heap, directives, directivesRegistered, mainTransformed>>
  /\ call' = [op |-> "handleHotUpdate", file |-> file,
              hot |-> call.hot \/ isDirectiveFile(file)]
  /\ UNCHANGED <<registered, overwritten, clearedNames, snapshot, source, code,
                 rootDir, disk>>

\* transform(code, id)
transform(text, id) ==
  LET \* phase 1
      refresh == ~directivesRegistered /\ rootDir # <<>> /\ disk.exists
      object == IF refresh THEN RegisteredFrom(disk, FALSE) ELSE heap[directives]
      \* phase 2
      main == /\ ~mainTransformed
              /\ \/ EndsWith(id, <<"m","a","i","n",".","t","s","x">>)
                 \/ EndsWith(id, <<"m","a","i","n",".","t","s">>)
      \* phase 3
      directive == Includes(id, <<"s","r","c","/","d","i","r","e","c","t","i","v","e","s","/">>) /\ ~Includes(id, <<"n","o","d","e","_","m","o","d","u","l","e","s">>)
      \* phase 4
      sourceFile == \E ext \in {<<"t","s">>, <<"t","s","x">>, <<"j","s">>, <<"j","s","x">>} : EndsWith(id, <<".">> \o ext)
      applied == ApplyDirectives(text, object)
      result ==
        IF main /\ disk.exists
          THEN Value(DirectiveImports(DirectiveSources(disk.files))
                       \o <<"\n", "\n">> \o text)
        ELSE IF directive
          THEN IF RemoveRegistration(text) # text
                 THEN Value(RemoveRegistration(text)) ELSE Null
        ELSE IF ~sourceFile \/ Includes(id, <<"n","o","d","e","_","m","o","d","u","l","e","s">>) THEN Null
        ELSE applied.result
      dispatched == ~(main /\ disk.exists) /\ ~directive /\ sourceFile
                      /\ ~Includes(id, <<"n","o","d","e","_","m","o","d","u","l","e","s">>)
  IN /\ IF refresh THEN Repopulate(object) ELSE UNCHANGED <<heap, directives>>
     /\ directivesRegistered' = (directivesRegistered \/ refresh)
     /\ mainTransformed' = (mainTransformed \/ main)
     /\ call' = [op |-> "transform", id |-> id, code |-> text, hot |-> call.hot,
                 after |-> call.op, refreshed |-> refresh,
                 invoked |-> IF dispatched THEN applied.invoked ELSE <<>>,
                 result |-> result]
     /\ UNCHANGED <<registered, overwritten, clearedNames, snapshot, source, code,
                    rootDir, disk>>

\* the project registers its handlers while the configuration is loaded,
\* then the source file is transformed
BuildNext ==
  \/ configResolved
  \/ call.op = "none" /\ \E handler \in OwnHandlers : registerOwn(handler)
  \/ transform(code, AppFile)

BuildSpec == BuildInit /\ [][BuildNext]_vars

DevNext ==
  \/ configResolved
  \/ \E directory \in Directories : write(directory)
  \/ \E handler \in OwnHandlers : registerOwn(handler)
  \/ \E file \in Ids : handleHotUpdate(file)
  \/ \E id \in Ids : \E text \in TextsOf(id) : transform(text, id)

DevSpec == DevInit /\ [][DevNext]_vars

(***************************************************************************)
(* Claims about the text mutators, checked under MutatorSpec.  What a      *)
(* claim expects is stated on the pieces the input was written from.       *)
(***************************************************************************)
\* C11: addProp followed by removeProp of the same property gives back the
\* input, for every input in which no element of the component carries that
\* property (elements with other properties and self-closing ones included).
AddThenRemoveRestores ==
  (call.op = "removeProp" /\ call.after = "addProp"
     /\ \A k \in 1..Len(source) : source[k] # "PA")
    => call.result = code

\* the input has only whole elements: no open or close tag on its own
WholeElements == \A k \in 1..Len(source) : source[k] \notin {"OB", "CB"}

\* the input has no element of the component at all
NoComponentElement == \A k \in 1..Len(source) : source[k] \in {"X", "XA", "T"}

\* the input with each piece replaced by what a claim expects of it
RECURSIVE Expected(_, _)
Expected(ps, expect) ==
  IF ps = <<>> THEN <<>>
  ELSE (IF Head(ps) \in DOMAIN expect THEN expect[Head(ps)] ELSE PieceText[Head(ps)])
         \o Expected(Tail(ps), expect)

\* C15: a mutator called on an input in which its target component does not
\* occur returns the input unchanged.
AbsentTargetIsUnchanged ==
  (call.op # "none" /\ call.after = "none" /\ NoComponentElement)
    => call.result = code

\* C16: replaceComponent renames the open and the close tag of each paired
\* element of the component, keeps its attributes and content, and leaves
\* the text outside the paired elements as it was.
PairedElementsAreRenamed ==
  (call.op = "replaceComponent" /\ WholeElements)
    => call.result =
         Expected(source,
                  [P  |-> <<"<","N",">","t","<","/","N",">">>,
                   PA |-> <<"<","N"," ","p","=","\"","1","\"",">","t","<","/","N",">">>,
                   PQ |-> <<"<","N"," ","p","x","=","\"","1","\"",">","t","<","/","N",">">>])

\* C17: removeComponent deletes each self-closing element of the component,
\* replaces each paired one by its content, and leaves all other text as it
\* was.
ElementsAreRemoved ==
  (call.op = "removeComponent" /\ WholeElements)
    => call.result =
         Expected(source,
                  [S |-> <<>>, SS |-> <<>>,
                   P |-> <<"t">>, PA |-> <<"t">>, PQ |-> <<"t">>])

(***************************************************************************)
(* Claims about the plugin's transform, checked under BuildSpec.  What a   *)
(* claim expects is stated on the lines the file was written from and on   *)
(* the own properties of the registry object.                              *)
(***************************************************************************)
\* the directive name each line of a file carries
LineName == [MC |-> "cat", MD |-> "dog", MT |-> "toString", MH |-> "my-directive"]

\* the registry object the handlers of the last transform were looked up in
Registry == heap[directives]

\* the handler registered under a name
RegisteredHandler(name) == GetProp(Registry, name)

\* the names of the handlers the last transform called, in the order of the calls
InvokedNames == [k \in 1..Len(call.invoked) |-> Key(call.invoked[k].name)]

\* the lines of the file that are directives
DirectiveLines == {k \in 1..Len(source) : source[k] \in DOMAIN LineName}

\* C12: a directive with a hyphen in its name is recognized by transform and
\* dispatched to the handler registered under that name.
HyphenatedIsDispatched ==
  (/\ call.op = "transform"
   /\ DirectiveLines # {}
   /\ \A k \in DirectiveLines : source[k] = "MH"
   /\ HasOwn(Registry, "my-directive"))
    => \E k \in 1..Len(call.invoked) : InvokedNames[k] = "my-directive"

\* C13: in one transform of a file, the handler of each directive name is
\* called at most once, however often the directive occurs in the file.
HandlerCalledAtMostOnce ==
  call.op = "transform"
    => \A i, j \in 1..Len(call.invoked) :
         call.invoked[i].name = call.invoked[j].name => i = j

\* a directive occurs twice in the file and its handler was called with the
\* text of the file
HandlerCalledAtMostOnceWitness ==
  /\ call.op = "transform"
  /\ \E i, j \in DirectiveLines : i < j /\ source[i] = "MC" /\ source[j] = "MC"
  /\ \E k \in 1..Len(call.invoked) :
       InvokedNames[k] = "cat" /\ call.invoked[k].code = code

\* C14: an exception thrown by a registered handler does not leave
\* transform, whichever way the handler was registered.
ThrowingHandlerIsCaught ==
  (/\ call.op = "transform"
   /\ \A k \in DirectiveLines : HasOwn(Registry, LineName[source[k]]))
    => call.result # Throws

\* C18: the code transform returns after it applied the handler of a
\* directive no longer contains the directive string "use <name>".
DirectiveIsRemoved ==
  (call.op = "transform" /\ call.result.kind = "value")
    => \A k \in 1..Len(call.invoked) :
         ~Includes(call.result.value,
                   <<"\"","u","s","e"," ">> \o call.invoked[k].name \o <<"\"">>)

\* the names of the directives of a file, each once, in the order of their
\* first lines
RECURSIVE FirstOccurrences(_, _)
FirstOccurrences(lines, seen) ==
  IF lines = <<>> THEN <<>>
  ELSE IF Head(lines) \notin DOMAIN LineName \/ LineName[Head(lines)] \in seen
    THEN FirstOccurrences(Tail(lines), seen)
    ELSE <<LineName[Head(lines)]>>
           \o FirstOccurrences(Tail(lines), seen \cup {LineName[Head(lines)]})

\* what a pass over the names is expected to do: the handler registered for
\* each name is given the text the handler before it returned, and the text
\* stays as it is when a handler returns null, fails or is not registered
RECURSIVE ExpectedPass(_, _)
ExpectedPass(names, pass) ==
  IF names = <<>> THEN pass
  ELSE IF ~HasOwn(Registry, Head(names)) THEN ExpectedPass(Tail(names), pass)
  ELSE LET handler == RegisteredHandler(Head(names))
           result == RunBody(handler.name, handler.fn.body, pass.code)
       IN ExpectedPass(Tail(names),
                       [code |-> IF result.kind = "value" THEN result.value
                                 ELSE pass.code,
                        invoked |-> Append(pass.invoked,
                                           [name |-> DirectiveNameText[Head(names)],
                                            code |-> pass.code])])

\* C19: in one transform the handlers run in the order of the first
\* occurrences of their directives, each on the text the one before it
\* returned, and the text of the last one is what transform returns.
HandlersRunInOrder ==
  (call.op = "transform" /\ \A k \in DirectiveLines : source[k] # "MH")
    => LET expected == ExpectedPass(FirstOccurrences(source, {}),
                                    [code |-> code, invoked |-> <<>>])
       IN /\ call.invoked = expected.invoked
          /\ call.result # Throws
          /\ expected.code = (IF call.result.kind = "value"
                                THEN call.result.value ELSE code)

(***************************************************************************)
(* Claims about hot updates, checked under DevSpec.                        *)
(***************************************************************************)
\* the file is in the directory src/directives of the project
UnderDirectives(file) == file = DirectiveFile

\* the definitions a registration from the directory is expected to find:
\* those in its .ts and .tsx files
DefinitionsOnDisk(directory) ==
  UNION {{f.definitions[i] : i \in 1..Len(f.definitions)} :
           f \in {directory.files[k] : k \in 1..Len(directory.files)}
                   \ {x \in {directory.files[k] : k \in 1..Len(directory.files)} :
                        x.name = <<"n",".","m","d">>}}

\* the names of those that carry a word as name and a handler method
NamesOnDisk(directory) ==
  {Key(d.name) : d \in {x \in DefinitionsOnDisk(directory) :
                          Key(x.name) \in {"cat", "dog", "toString"}
                            /\ x.params # "arrow"}}

\* the step left the registry cleared and filled from the directory: every
\* entry is a handler built from a file, and the names are those on disk
RefreshedFromDisk ==
  LET object == heap'[directives']
  IN /\ call'.refreshed
     /\ \A i \in 1..Len(object.own) : object.own[i].value.fn.wrapped
     /\ {object.own[i].key : i \in 1..Len(object.own)} = NamesOnDisk(disk)

\* a hot update of a file under src/directives leaves both flags false, one
\* of any other file changes neither the registry nor the flags
HotUpdateEffect ==
  \A file \in Ids :
    handleHotUpdate(file) =>
      IF UnderDirectives(file)
        THEN ~directivesRegistered' /\ ~mainTransformed'
        ELSE UNCHANGED <<heap, directives, directivesRegistered, mainTransformed>>

\* a call of transform with the root directory set and the directory present
TransformStep ==
  call' # call /\ call'.op = "transform" /\ rootDir # <<>> /\ disk.exists

\* C20 as stated: after a hot update of a file under src/directives both
\* flags are false and every later call of transform clears the registry and
\* fills it from disk before it looks up a handler; a hot update of another
\* file changes neither the registry nor the flags.
EveryLaterTransformRefreshes ==
  [][/\ HotUpdateEffect
     /\ (call.hot /\ TransformStep) => RefreshedFromDisk]_vars

\* C20, amended: it is the next call of transform after such a hot update
\* that clears the registry and fills it from disk; the calls after it keep
\* the registry until the next hot update.
NextTransformRefreshes ==
  [][/\ HotUpdateEffect
     /\ (call.op = "handleHotUpdate" /\ UnderDirectives(call.file) /\ TransformStep)
          => RefreshedFromDisk]_vars

\* after a hot update of a directive file, transform registered the handlers
\* from disk and called one of them
NextTransformRefreshesWitness ==
  /\ call.op = "transform"
  /\ call.after = "handleHotUpdate"
  /\ call.hot
  /\ call.refreshed
  /\ call.invoked # <<>>

(***************************************************************************)
(* Claims about elements of other components, checked under MutatorSpec.   *)
(***************************************************************************)
\* what a mutator called with the component name returns for a text
Mutated(op, text) ==
  IF op = "removeComponent" THEN removeComponent(text, ComponentName)
  ELSE IF op = "removeProp" THEN removeProp(text, ComponentName, PropName)
  ELSE replaceAttribute(text, ComponentName, PropName, OldValue, NewValue)

\* the input with the mutator applied to each of its pieces but the
\* elements of the component whose name only starts with the name given,
\* which stay as they are
RECURSIVE OnlyExactElements(_, _)
OnlyExactElements(ps, op) ==
  IF ps = <<>> THEN <<>>
  ELSE (IF Head(ps) \in {"X", "XA"} THEN PieceText[Head(ps)]
        ELSE Mutated(op, PieceText[Head(ps)]))
         \o OnlyExactElements(Tail(ps), op)

\* C21: removeComponent, removeProp and replaceAttribute called with a
\* component name change only the elements of that component: an element
\* whose name has the name given as a proper prefix is left unchanged.
PrefixNamedElementsAreUnchanged ==
  (/\ call.op \in {"removeComponent", "removeProp", "replaceAttribute"}
   /\ call.after = "none"
   /\ WholeElements)
    => call.result = OnlyExactElements(source, call.op)

====
